---- MODULE Spec2Model ----
(***************************************************************************)
(* Model of pyselfe.Dataset (src/test_bed/pyselfe_kdtree.py): the SELFE    *)
(* binary output reader.  Modelled operations: compute_step_size,          *)
(* find_parent_element, read_time_series and read_time_series_xy.          *)
(* UGrid.add_data, whose code is not among the sources, is modelled from   *)
(* the behaviour src/test/test_add_data.py and src/test/test_uvar.py       *)
(* expect of it.                                                           *)
(*                                                                         *)
(* Conventions.                                                            *)
(*  - numpy arrays are 0-based: a 1-D array is a function on 0..n-1, an    *)
(*    n-D array is a record [shape, at] with at a function on index        *)
(*    tuples.  Python lists that only grow by append are sequences.        *)
(*  - floating-point values are modelled by exact rationals [n, d] (d > 0);*)
(*    node coordinates are even integers so that signa's division by 2 is  *)
(*    exact.  Rounding error is outside the model.                         *)
(*  - a raised Python exception is the value Raise(kind).                  *)
(***************************************************************************)
EXTENDS Integers, Sequences, FiniteSets, TLC

VARIABLES
    self,      \* the Dataset after __init__: header, mesh, grid_size
    disk,      \* the numbered data files of the sequence (environment)
    args,      \* arguments of the running read_time_series call
    xyargs,    \* arguments of the running read_time_series_xy call
    pc,        \* position of control
    nodes, levels, arco, nlevs,   \* read_time_series locals (lines 184-208)
    files, i,                     \* loop variables (lines 211, 216)
    t, t_iter, eta, data,         \* accumulators (lines 171-174)
    ret,       \* value returned (or exception raised) by read_time_series
    xyret,     \* value returned (or exception raised) by read_time_series_xy
    io,        \* history of file operations, in program order
    query,     \* arguments of a find_parent_element call
    located,   \* its result
    grid,      \* a UGrid: entity counts and its data dictionary
    uvar,      \* the UVar object the caller holds
    added      \* outcomes of the add_data calls so far, in order

vars == <<self, disk, args, xyargs, pc, nodes, levels, arco, nlevs, files, i,
          t, t_iter, eta, data, ret, xyret, io, query, located,
          grid, uvar, added>>

gridVars == <<grid, uvar, added>>

rtsLocals == <<nodes, levels, arco, nlevs, files, i, t, t_iter, eta, data>>

----------------------------------------------------------------------------
(* Bounds of the model.                                                    *)

MaxElems == 2      \* elements of a mesh drawn for find_parent_element
MaxFiles == 2      \* nfiles of a read_time_series call
MaxSteps == 2      \* nsteps of the header
MaxLevels == 3     \* nlevels of the header

(* Program constants.                                                      *)

TolInv == 100000   \* 1/1.e-5, the containment tolerance (line 312)
KNearest == 3      \* k of the kd-tree query (line 351)
NFilesDefault == 3 \* default nfiles of read_time_series (line 145)

----------------------------------------------------------------------------
(* Generic helpers.                                                        *)

Raise(kind) == [exc |-> kind]

Abs(a) == IF a < 0 THEN -a ELSE a

\* a Python list / tuple literal as a 0-based array
Arr(s) == [k \in 0..(Len(s) - 1) |-> s[k + 1]]
ALen(a) == Cardinality(DOMAIN a)
RangeOf(f) == {f[k] : k \in DOMAIN f}

RECURSIVE GCD(_, _)
GCD(a, b) == IF b = 0 THEN a ELSE GCD(b, a % b)

\* exact rationals standing for Python floats
Rat(n, d) == [n |-> n, d |-> d]
RInt(n) == Rat(n, 1)
RNorm(r) == LET g == GCD(Abs(r.n), r.d) IN Rat(r.n \div g, r.d \div g)
RAdd(a, b) == LET g == GCD(a.d, b.d)
              IN RNorm(Rat(a.n * (b.d \div g) + b.n * (a.d \div g), a.d * (b.d \div g)))
RNeg(a) == Rat(-a.n, a.d)
RSub(a, b) == RAdd(a, RNeg(b))
RMul(a, b) == LET x == RNorm(Rat(a.n, b.d))
                  y == RNorm(Rat(b.n, a.d))
              IN Rat(x.n * y.n, x.d * y.d)
RDivInt(a, k) == RNorm(Rat(a.n, a.d * k))
RLe(a, b) == a.n * b.d <= b.n * a.d
RLt(a, b) == a.n * b.d < b.n * a.d
REq(a, b) == a.n * b.d = b.n * a.d
RMax(a, b) == IF RLe(a, b) THEN b ELSE a
RMin(a, b) == IF RLe(a, b) THEN a ELSE b

----------------------------------------------------------------------------
(* find_parent_element (lines 264-328).                                    *)

\* signed area of a triangle (lines 280-282); coordinates are even, so the
\* division by 2 is exact
signa(x1, x2, x3, y1, y2, y3) ==
    ((x1 - x3) * (y2 - y3) - (x2 - x3) * (y1 - y3)) \div 2

\* the inner loop over j (lines 290-306) for element i and point (x00, y00):
\* the three sub-triangle areas out[0..2], their absolute sum aa and the
\* element's own area ar
ElemAreas(ei, x00, y00) ==
    LET nm == self.elem
        x == self.x
        y == self.y
        J1(j) == IF j + 1 > 2 THEN j + 1 - 3 ELSE j + 1
        J2(j) == IF j + 2 > 2 THEN j + 2 - 3 ELSE j + 2
        n0(j) == nm[ei][j] - 1
        n1(j) == nm[ei][J1(j)] - 1
        n2(j) == nm[ei][J2(j)] - 1
        out == [j \in 0..2 |->
                   signa(x[n1(j)], x[n2(j)], x00, y[n1(j)], y[n2(j)], y00)]
    IN [out |-> out,
        aa |-> Abs(out[0]) + Abs(out[1]) + Abs(out[2]),
        ar |-> signa(x[n1(0)], x[n2(0)], x[n0(0)], y[n1(0)], y[n2(0)], y[n0(0)])]

\* ae <= 1.e-5 (lines 311-312), with ae = abs(aa-ar)/ar and ar > 0:
\* abs(aa-ar) is an integer, so the test is abs(aa-ar) <= floor(ar / 1e5)
Contained(e) == Abs(e.aa - e.ar) <= e.ar \div TolInv

\* the interpolation weights of a containing element (lines 315-322)
Weights(e) ==
    LET raw == [j \in 0..2 |-> RNorm(Rat(e.out[j], e.ar))]
        a1 == RMax(RInt(0), RMin(RInt(1), raw[1]))
        \* line 317 clamps arco[2] too, but lines 319/322 overwrite it
    IN IF RLt(RInt(1), RAdd(raw[0], a1))
       THEN Arr(<<raw[0], RSub(RInt(1), raw[0]), RInt(0)>>)
       ELSE Arr(<<raw[0], a1, RSub(RSub(RInt(1), raw[0]), a1)>>)

\* a scan that passes over an element of non-positive area instead of failing
RECURSIVE ScanSkippingDegenerate(_, _, _, _)
ScanSkippingDegenerate(ei, x00, y00, tested) ==
    IF ei >= self.ne
    THEN [exc |-> "SystemExit: Cannot find a parent", tested |-> tested]
    ELSE LET e == ElemAreas(ei, x00, y00)
         IN IF e.ar <= 0
            THEN ScanSkippingDegenerate(ei + 1, x00, y00, tested)
            ELSE IF Contained(e)
                 THEN [parent |-> ei,
                       arco |-> Weights(e),
                       node3 |-> self.elem[ei],
                       tested |-> Append(tested, ei)]
                 ELSE ScanSkippingDegenerate(ei + 1, x00, y00, Append(tested, ei))

\* the scan over the elements from index ei on (lines 289-323) followed by
\* the final test (lines 324-328).  tested lists the elements whose
\* containment test (line 312) has been evaluated so far.
RECURSIVE ScanElements(_, _, _, _)
ScanElements(ei, x00, y00, tested) ==
    IF ei >= self.ne
    THEN [exc |-> "SystemExit: Cannot find a parent", tested |-> tested]
    ELSE LET e == ElemAreas(ei, x00, y00)
         IN IF e.ar <= 0
            THEN [exc |-> "SystemExit: Negative area", tested |-> tested]
            ELSE IF Contained(e)
                 THEN [parent |-> ei,
                       arco |-> Weights(e),
                       node3 |-> self.elem[ei],
                       tested |-> Append(tested, ei)]
                 ELSE ScanElements(ei + 1, x00, y00, Append(tested, ei))

find_parent_element(x00, y00) == ScanElements(0, x00, y00, <<>>)

Failed(r) == "exc" \in DOMAIN r

----------------------------------------------------------------------------
(* numpy arrays.                                                           *)

Last(s) == s[Len(s)]
Ix(n) == 0..(n - 1)

\* the index tuples of an array of the given shape (up to 4 axes)
IdxSet(shape) ==
    CASE Len(shape) = 1 -> {<<a>> : a \in Ix(shape[1])}
      [] Len(shape) = 2 -> {<<a, b>> : a \in Ix(shape[1]), b \in Ix(shape[2])}
      [] Len(shape) = 3 -> {<<a, b, c>> : a \in Ix(shape[1]), b \in Ix(shape[2]),
                                          c \in Ix(shape[3])}
      [] Len(shape) = 4 -> {<<a, b, c, d>> : a \in Ix(shape[1]), b \in Ix(shape[2]),
                                             c \in Ix(shape[3]), d \in Ix(shape[4])}

NdArray(shape, F(_)) == [shape |-> shape, at |-> [ix \in IdxSet(shape) |-> F(ix)]]
Ndim(a) == Len(a.shape)

\* Python index k into an axis of length n: negative indices count from the end
IdxOk(k, n) == -n <= k /\ k < n
PyIdx(k, n) == IF k < 0 THEN k + n ELSE k

\* a selector is None, a list of indices or a single int
NoneSel == [kind |-> "None"]
ListSel(s) == [kind |-> "list", v |-> s]
IntSel(k) == [kind |-> "int", v |-> k]
SelOk(sel, n) ==
    IF sel.kind = "int" THEN IdxOk(sel.v, n)
    ELSE \A k \in 1..Len(sel.v) : IdxOk(sel.v[k], n)

\* np.arange(n) as a list selector
Arange(n) == ListSel([k \in 1..n |-> k - 1])

\* flat.reshape(a, b, c) for a flat array of a*b*c items (C order)
Reshape3(flat, a, b, c) ==
    NdArray(<<a, b, c>>, LAMBDA ix : flat[(ix[1] * b + ix[2]) * c + ix[3]])

\* arr[sel, :, :] for a 3-axis array: a list keeps the axis, an int drops it
Take0(arr, sel) ==
    IF sel.kind = "int"
    THEN NdArray(<<arr.shape[2], arr.shape[3]>>,
                 LAMBDA ix : arr.at[<<PyIdx(sel.v, arr.shape[1]), ix[1], ix[2]>>])
    ELSE NdArray(<<Len(sel.v), arr.shape[2], arr.shape[3]>>,
                 LAMBDA ix : arr.at[<<PyIdx(sel.v[ix[1] + 1], arr.shape[1]),
                                      ix[2], ix[3]>>])

\* arr[:, sel, :] for a 3-axis array
Take1(arr, sel) ==
    IF sel.kind = "int"
    THEN NdArray(<<arr.shape[1], arr.shape[3]>>,
                 LAMBDA ix : arr.at[<<ix[1], PyIdx(sel.v, arr.shape[2]), ix[2]>>])
    ELSE NdArray(<<arr.shape[1], Len(sel.v), arr.shape[3]>>,
                 LAMBDA ix : arr.at[<<ix[1], PyIdx(sel.v[ix[2] + 1], arr.shape[2]),
                                      ix[3]>>])

\* np.array(list) of equally shaped arrays; np.array([]) has shape (0,)
StackList(lst) ==
    IF Len(lst) = 0 THEN [shape |-> <<0>>, at |-> <<>>]
    ELSE NdArray(<<Len(lst)>> \o lst[1].shape,
                 LAMBDA ix : lst[ix[1] + 1].at[Tail(ix)])

\* np.column_stack(list of 1-D arrays).T: one row per list entry
ColumnStackT(lst) ==
    IF Len(lst) = 0 THEN Raise("ValueError: need at least one array")
    ELSE IF \E k \in 1..Len(lst) : ALen(lst[k]) # ALen(lst[1])
    THEN Raise("ValueError: array dimensions must match")
    ELSE NdArray(<<Len(lst), ALen(lst[1])>>, LAMBDA ix : lst[ix[1] + 1][ix[2]])

----------------------------------------------------------------------------
(* The dataset: header and mesh as read by __init__ (lines 62-72).         *)

RECURSIVE SumTo(_, _)
SumTo(f, n) == IF n = 0 THEN 0 ELSE f[n - 1] + SumTo(f, n - 1)

\* compute_step_size (lines 127-142): bot_idx is clamped in place and
\* grid_size is the number of (node, level) items of one record
compute_step_size(h) ==
    IF h.flag_dm = 3
    THEN LET bIdx == [n \in DOMAIN h.bot_idx |->
                         IF h.bot_idx[n] < 1 THEN 1 ELSE h.bot_idx[n]]
         IN [h EXCEPT !.bot_idx = bIdx,
                      !.grid_size = SumTo([n \in DOMAIN bIdx |->
                                              h.nlevels - bIdx[n] + 1], h.np)]
    ELSE [h EXCEPT !.grid_size = h.np]

\* a mesh of np nodes and ne triangles as read_hgrid stores it (lines
\* 107-122): elem holds 1-based node numbers
Mesh(xs, ys, dps, elems) ==
    [np |-> Len(xs), ne |-> Len(elems),
     x |-> Arr(xs), y |-> Arr(ys), dp |-> Arr(dps),
     elem |-> Arr([k \in 1..Len(elems) |-> Arr(elems[k])])]

\* the mesh of the time-series scenarios: a square cut into two triangles
SquareMesh ==
    Mesh(<<0, 8, 0, 8>>, <<0, 0, 8, 8>>, <<10, 20, 30, 40>>,
         << <<1, 2, 3>>, <<2, 4, 3>> >>)

\* the header fields read_header stores (lines 83-101) that the reader uses
Headers ==
    {[nsteps |-> ns, flag_sv |-> sv, flag_dm |-> dm, nlevels |-> nl,
      bot_idx |-> b, grid_size |-> 0] :
        ns \in {1, MaxSteps}, sv \in {1, 2}, dm \in {2, 3}, nl \in {1, MaxLevels},
        b \in {[n \in Ix(SquareMesh.np) |-> 0],
               [n \in Ix(SquareMesh.np) |-> IF n = 0 THEN 2 ELSE 1]}}

\* Dataset.__init__ (lines 62-72)
Datasets ==
    {compute_step_size(h @@ SquareMesh) :
        h \in {g \in Headers : g.flag_dm = 2 => g.bot_idx[0] = 0}}

----------------------------------------------------------------------------
(* The data files (environment).  Record s of file f holds a time, an      *)
(* iteration count, np elevations and flag_sv*grid_size data values        *)
(* (lines 217-220); each value names its record and its position.          *)

RecId(f, s) == 10 * f + s
TimeOf(f, s) == RecId(f, s)
IterOf(f, s) == 100 + RecId(f, s)
EtaOf(f, s, n) == 10 * RecId(f, s) + n
DataOf(f, s, k) == 100 * RecId(f, s) + k

\* the reads of one record, in program order
StageNo(g) == CASE g = "t" -> 1 [] g = "iter" -> 2 [] g = "eta" -> 3 [] g = "data" -> 4

\* a file is missing, complete, or cut short: it ends right before item
\* `stage` of record `step`.  The behaviour of numpyIO.fread at end of file
\* is not part of this repository (line 35): eof = "raise" (an exception) or
\* eof = "short" (fewer items than asked for, as np.fromfile does).
CutFiles(ds) ==
    {[kind |-> "cut", step |-> s, stage |-> g, eof |-> m] :
        s \in {0, ds.nsteps - 1}, g \in {"t", "iter", "eta", "data"},
        m \in {"raise", "short"}}

\* the file sequences sfile .. sfile+nfiles-1; the cut files of one sequence
\* are cut at the same place
Disks(ds, sfile, nfiles) ==
    {[f \in sfile..(sfile + nfiles - 1) |->
         IF pat[f] = "cut" THEN c ELSE [kind |-> pat[f]]] :
        pat \in [sfile..(sfile + nfiles - 1) -> {"ok", "missing", "cut"}],
        c \in CutFiles(ds)}

----------------------------------------------------------------------------
(* read_time_series (lines 144-262).                                       *)

XySize(xy) == IF Len(xy) = 0 THEN 0 ELSE Len(xy) * Len(xy[1])

\* lines 170-208: the accumulators, and the node and level selectors.  Query
\* points are resolved to the three nodes and weights of their parent
\* elements (lines 184-192); sys.exit raises SystemExit.
RtsBegin ==
    /\ pc = "rts"
    /\ LET xy == args.xy
           loc == [k \in 1..Len(xy) |-> find_parent_element(xy[k][1], xy[k][2])]
           bad == {k \in 1..Len(xy) : Failed(loc[k])}
           first == CHOOSE k \in bad : \A m \in bad : k <= m
           lev == IF args.levels.kind = "None" THEN Arange(self.nlevels)
                  ELSE args.levels
       IN IF XySize(xy) # 0 /\ Len(xy[1]) # 2
          THEN /\ ret' = Raise("SystemExit: xy array shape wrong")
               /\ pc' = "raised"
               /\ UNCHANGED rtsLocals
          ELSE IF XySize(xy) # 0 /\ bad # {}
          THEN /\ ret' = Raise(loc[first].exc)
               /\ pc' = "raised"
               /\ UNCHANGED rtsLocals
          ELSE /\ IF XySize(xy) # 0
                  THEN /\ nodes' = ListSel([k \in 1..(3 * Len(xy)) |->
                                     loc[(k - 1) \div 3 + 1].node3[(k - 1) % 3] - 1])
                       /\ arco' = [k \in Ix(3 * Len(xy)) |->
                                     loc[k \div 3 + 1].arco[k % 3]]
                  ELSE /\ nodes' = IF args.nodes.kind = "None"
                                   THEN Arange(self.np) ELSE args.nodes
                       /\ arco' = <<>>
               /\ IF self.flag_dm = 2
                  THEN nlevs' = 1 /\ levels' = ListSel(<<0>>)
                  ELSE nlevs' = self.nlevels /\ levels' = lev
               /\ t' = <<>> /\ t_iter' = <<>> /\ eta' = <<>> /\ data' = <<>>
               /\ files' = args.sfile
               /\ i' = 0
               /\ pc' = "loop"
               /\ UNCHANGED ret
    /\ UNCHANGED <<gridVars, self, disk, args, xyargs, xyret, io, query, located>>

\* lines 211-215: the next file of the sequence is opened; a file that cannot
\* be opened raises inside the try and the loop continues (lines 227-228)
RtsOpen ==
    /\ pc = "loop"
    /\ files < args.sfile + args.nfiles
    /\ io' = Append(io, [op |-> "open", file |-> files,
                         ok |-> disk[files].kind # "missing"])
    /\ IF disk[files].kind = "missing"
       THEN files' = files + 1 /\ pc' = "loop" /\ UNCHANGED i
       ELSE i' = 0 /\ pc' = "read" /\ UNCHANGED files
    /\ UNCHANGED <<gridVars, self, disk, args, xyargs, nodes, levels, arco, nlevs,
                   t, t_iter, eta, data, ret, xyret, query, located>>

\* one pass of the loop body (lines 217-226) on record s of file f, with the
\* node and level selectors nsel and lsel, nl levels per node and the
\* accumulators acc: what each statement appends, and the line that raises
\* (0: none).  Under eof="short" a read past the end yields no items, so the
\* appends of lines 217-218 add nothing and line 219 appends an empty array.
RecordStep(f, s, nsel, lsel, nl, acc) ==
    LET F == disk[f]
        cutHere == F.kind = "cut" /\ F.step = s
        has(g) == ~cutHere \/ StageNo(g) < StageNo(F.stage)
        nflat == IF has("data") THEN self.flag_sv * self.grid_size ELSE 0
        flat == [k \in Ix(nflat) |-> DataOf(f, s, k)]
        failAt == IF cutHere /\ F.eof = "raise" THEN 216 + StageNo(F.stage)
                  ELSE IF nflat # self.np * nl * self.flag_sv THEN 221
                  ELSE IF ~SelOk(nsel, self.np) THEN 224
                  ELSE IF ~SelOk(lsel, nl) THEN 225
                  ELSE 0
        reached(line) == failAt = 0 \/ failAt > line
    IN [t |-> IF reached(217) /\ has("t")
              THEN Append(acc.t, TimeOf(f, s)) ELSE acc.t,
        t_iter |-> IF reached(218) /\ has("iter")
                   THEN Append(acc.t_iter, IterOf(f, s)) ELSE acc.t_iter,
        eta |-> IF reached(219)
                THEN Append(acc.eta, IF has("eta")
                                     THEN [n \in Ix(self.np) |-> EtaOf(f, s, n)]
                                     ELSE <<>>)
                ELSE acc.eta,
        data |-> IF failAt = 0
                 THEN Append(acc.data,
                        Take1(Take0(Reshape3(flat, self.np, nl, self.flag_sv),
                                    nsel), lsel))
                 ELSE acc.data,
        failAt |-> failAt]

\* lines 216-228: record i of the open file is read; any exception ends the
\* file (except: continue), as does the last record
RtsRead ==
    /\ pc = "read"
    /\ LET r == RecordStep(files, i, nodes, levels, nlevs,
                           [t |-> t, t_iter |-> t_iter, eta |-> eta, data |-> data])
       IN /\ t' = r.t /\ t_iter' = r.t_iter /\ eta' = r.eta /\ data' = r.data
          /\ io' = Append(io, [op |-> "read", file |-> files, step |-> i,
                               ok |-> r.failAt = 0])
          /\ IF r.failAt # 0 \/ i + 1 >= self.nsteps
             THEN files' = files + 1 /\ pc' = "loop" /\ UNCHANGED i
             ELSE i' = i + 1 /\ pc' = "read" /\ UNCHANGED files
    /\ UNCHANGED <<gridVars, self, disk, args, xyargs, nodes, levels, arco, nlevs,
                   ret, xyret, query, located>>

\* the accumulators after the whole loop (lines 211-228) from record s of
\* file f on, with selectors nsel and lsel: what a call with these selectors
\* has gathered when it reaches line 230
RECURSIVE RunFrom(_, _, _, _, _)
RunFrom(f, s, nsel, lsel, acc) ==
    IF f >= args.sfile + args.nfiles THEN acc
    ELSE IF disk[f].kind = "missing" THEN RunFrom(f + 1, 0, nsel, lsel, acc)
    ELSE LET r == RecordStep(f, s, nsel, lsel,
                             IF self.flag_dm = 2 THEN 1 ELSE self.nlevels, acc)
             acc1 == [t |-> r.t, t_iter |-> r.t_iter, eta |-> r.eta, data |-> r.data]
         IN IF r.failAt # 0 \/ s + 1 >= self.nsteps
            THEN RunFrom(f + 1, 0, nsel, lsel, acc1)
            ELSE RunFrom(f, s + 1, nsel, lsel, acc1)

EmptyAcc == [t |-> <<>>, t_iter |-> <<>>, eta |-> <<>>, data |-> <<>>]

\* the weights taken at p, p+1, p+2 instead of 3p, 3p+1, 3p+2
Interp3Unstrided(v1, v2, v3, p) ==
    RAdd(RAdd(RMul(RInt(v1), arco[p]), RMul(RInt(v2), arco[p + 1])),
         RMul(RInt(v3), arco[p + 2]))

\* lines 249-257: the three nodes of query point p combined with its weights
Interp3(v1, v2, v3, p) ==
    RAdd(RAdd(RMul(RInt(v1), arco[3 * p]), RMul(RInt(v2), arco[3 * p + 1])),
         RMul(RInt(v3), arco[3 * p + 2]))

\* lines 230-262: the value read_time_series returns, or the exception that
\* leaves it
RtsResult ==
    LET e1 == ColumnStackT(eta)
        ncol == e1.shape[2]
        nsel == Len(nodes.v)
        e2 == NdArray(<<e1.shape[1], nsel>>,
                      LAMBDA ix : e1.at[<<ix[1], PyIdx(nodes.v[ix[2] + 1], ncol)>>])
        d1 == StackList(data)
        dp1 == [k \in Ix(nsel) |-> self.dp[PyIdx(nodes.v[k + 1], self.np)]]
        m == nsel \div 3
        d2 == NdArray(<<d1.shape[1], m, d1.shape[3], d1.shape[4]>>,
                LAMBDA ix : Interp3(d1.at[<<ix[1], 3 * ix[2], ix[3], ix[4]>>],
                                    d1.at[<<ix[1], 3 * ix[2] + 1, ix[3], ix[4]>>],
                                    d1.at[<<ix[1], 3 * ix[2] + 2, ix[3], ix[4]>>],
                                    ix[2]))
        e3 == NdArray(<<e2.shape[1], m>>,
                LAMBDA ix : Interp3(e2.at[<<ix[1], 3 * ix[2]>>],
                                    e2.at[<<ix[1], 3 * ix[2] + 1>>],
                                    e2.at[<<ix[1], 3 * ix[2] + 2>>], ix[2]))
        dp3 == [p \in Ix(m) |-> Interp3(dp1[3 * p], dp1[3 * p + 1], dp1[3 * p + 2], p)]
    IN IF Failed(e1) THEN e1
       ELSE IF ~SelOk(nodes, ncol)
       THEN Raise("IndexError: eta[:, nodes]")
       ELSE IF ~SelOk(nodes, self.np)
       THEN Raise("IndexError: dp[nodes]")
       ELSE IF XySize(args.xy) = 0
       THEN [t |-> t, t_iter |-> t_iter, eta |-> e2, dp |-> dp1, data |-> d1]
       ELSE IF Ndim(d1) < 4
       THEN Raise("IndexError: data.shape")
       ELSE [t |-> t, t_iter |-> t_iter, eta |-> e3, dp |-> dp3, data |-> d2]

\* the loop has run through the file sequence: lines 230-262
RtsFinish ==
    /\ pc = "loop"
    /\ files >= args.sfile + args.nfiles
    /\ ret' = RtsResult
    /\ pc' = IF Failed(ret') THEN "raised" ELSE "returned"
    /\ UNCHANGED <<gridVars, self, disk, args, xyargs, rtsLocals, xyret, io, query, located>>

----------------------------------------------------------------------------
(* read_time_series_xy (lines 344-386).                                    *)

\* kdtree.query(xy, k): the k nodes nearest to (px, py), nearest first (line
\* 351); equal distances are ordered by node index
Nearest(px, py, k) ==
    LET d2(n) == (self.x[n] - px) * (self.x[n] - px) + (self.y[n] - py) * (self.y[n] - py)
        before(m, n) == d2(m) < d2(n) \/ (d2(m) = d2(n) /\ m < n)
        rank(n) == Cardinality({m \in Ix(self.np) : before(m, n)})
    IN [j \in 1..k |-> CHOOSE n \in Ix(self.np) : rank(n) = j - 1]

\* lines 350-355 and 366-375: the three nearest nodes are resolved and
\* read_time_series is called with them, with all levels ('average') or with
\* the single level index of the mode; nfiles and sfile take their defaults
XyCall ==
    /\ pc = "xy"
    /\ args' = [nodes |-> ListSel(Nearest(xyargs.x, xyargs.y, KNearest)),
                levels |-> CASE xyargs.sigma_level = "average" -> NoneSel
                             [] xyargs.sigma_level = "top" -> IntSel(0)
                             [] xyargs.sigma_level = "bottom" -> IntSel(self.nlevels - 1)
                             [] xyargs.sigma_level = "middle" -> IntSel(self.nlevels \div 2),
                xy |-> <<>>,
                nfiles |-> NFilesDefault,
                sfile |-> 1]
    /\ pc' = "rts"
    /\ UNCHANGED <<gridVars, self, disk, xyargs, rtsLocals, ret, xyret, io, query, located>>

\* an integer array as an array of floats
ToRat(a) == NdArray(a.shape, LAMBDA ix : RInt(a.at[ix]))

RECURSIVE RSumTo(_, _)
RSumTo(F(_), n) == IF n = 0 THEN RInt(0) ELSE RAdd(RSumTo(F, n - 1), F(n - 1))

\* a.mean(axis=ax): the axis is removed; an axis the array does not have
\* raises AxisError.  A raised exception passes through.
MeanAxis(a, ax) ==
    IF Failed(a) THEN a
    ELSE IF ax >= Ndim(a) THEN Raise("AxisError: axis out of bounds")
    ELSE LET n == a.shape[ax + 1]
             put(ix, v) == SubSeq(ix, 1, ax) \o <<v>> \o SubSeq(ix, ax + 1, Len(ix))
         IN NdArray(SubSeq(a.shape, 1, ax) \o SubSeq(a.shape, ax + 2, Len(a.shape)),
                    LAMBDA ix : RDivInt(RSumTo(LAMBDA v : a.at[put(ix, v)], n), n))

\* a[:, :, :, 0] and a[:, :, 0, :]: four indices need four axes
IndexLast(a) ==
    IF Ndim(a) < 4 THEN Raise("IndexError: too many indices for array")
    ELSE NdArray(SubSeq(a.shape, 1, 3), LAMBDA ix : a.at[ix \o <<0>>])
IndexLevel(a) ==
    IF Ndim(a) < 4 THEN Raise("IndexError: too many indices for array")
    ELSE NdArray(<<a.shape[1], a.shape[2], a.shape[4]>>,
                 LAMBDA ix : a.at[<<ix[1], ix[2], 0, ix[3]>>])

\* np.column_stack((t, a)): t as the first column, then the columns of a
ColumnStack(tt, a) ==
    IF Failed(a) THEN a
    ELSE IF Len(tt) # a.shape[1] THEN Raise("ValueError: array dimensions must match")
    ELSE LET cols == IF Ndim(a) = 1 THEN 1 ELSE a.shape[2]
         IN NdArray(<<Len(tt), 1 + cols>>,
                    LAMBDA ix : IF ix[2] = 0 THEN RInt(tt[ix[1] + 1])
                                ELSE IF Ndim(a) = 1 THEN a.at[<<ix[1]>>]
                                ELSE a.at[<<ix[1], ix[2] - 1>>])

\* lines 356-364 and 376-386: what read_time_series_xy makes of the value
\* read_time_series returned; an exception of either leaves the call
XyResult ==
    LET eta1 == MeanAxis(ToRat(ret.eta), 1)
        avg == MeanAxis(MeanAxis(MeanAxis(MeanAxis(IndexLast(ToRat(ret.data)),
                                                   2), 1), 1), 1)
        lev == MeanAxis(IndexLevel(ToRat(ret.data)), 1)
        d == IF xyargs.sigma_level = "average" THEN avg ELSE lev
        series == ColumnStack(ret.t, d)
        etas == ColumnStack(ret.t, eta1)
    IN IF Failed(ret) THEN ret
       ELSE IF Failed(eta1) THEN eta1
       ELSE IF Failed(d) THEN d
       ELSE IF Failed(series) THEN series
       ELSE IF ~xyargs.return_eta THEN [series |-> series]
       ELSE IF Failed(etas) THEN etas
       ELSE [series |-> series, eta |-> etas]

XyReturn ==
    /\ pc \in {"returned", "raised"}
    /\ xyargs.kind = "call"
    /\ xyret' = XyResult
    /\ pc' = "xydone"
    /\ UNCHANGED <<gridVars, self, disk, args, xyargs, rtsLocals, ret, io, query, located>>

----------------------------------------------------------------------------
(* Scenarios of a read_time_series call.                                   *)

NodeSels(ds) ==
    {NoneSel, ListSel(<<2, 0>>), ListSel(<<-1>>), ListSel(<<ds.np>>)}

LevelSels(ds) ==
    {NoneSel, ListSel(<<ds.nlevels - 1, 0>>), IntSel(ds.nlevels \div 2),
     ListSel(<<ds.nlevels>>)}

\* query point arrays: one point, two points (one in each triangle), a point
\* outside the mesh, and an array of the wrong shape
XYArrays ==
    { << <<2, 4>> >>, << <<2, 4>>, <<6, 4>> >>, << <<10, 10>> >>, << <<2, 4, 0>> >> }

\* calls with query points: the points in the mesh with all levels, a list
\* of levels or a single level; the others with all levels
XyCallArgs(ds) ==
    {[nodes |-> NoneSel, levels |-> l, xy |-> p, nfiles |-> k, sfile |-> 1] :
        l \in {NoneSel, ListSel(<<ds.nlevels - 1, 0>>), IntSel(0)},
        p \in {<< <<2, 4>> >>, << <<2, 4>>, <<6, 4>> >>}, k \in {1, MaxFiles}}
    \cup
    {[nodes |-> NoneSel, levels |-> NoneSel, xy |-> p, nfiles |-> k, sfile |-> 1] :
        p \in XYArrays, k \in {1, MaxFiles}}

RtsArgs(ds) ==
    {[nodes |-> n, levels |-> l, xy |-> <<>>, nfiles |-> k, sfile |-> 1] :
        n \in NodeSels(ds), l \in LevelSels(ds), k \in {1, MaxFiles}}
    \cup
    XyCallArgs(ds)
    \cup
    {[nodes |-> NoneSel, levels |-> NoneSel, xy |-> <<>>, nfiles |-> k, sfile |-> 2] :
        k \in {1, MaxFiles}}

NoCall == [kind |-> "None"]

\* the state before the first statement of a call
Idle ==
    /\ nodes = NoneSel /\ levels = NoneSel /\ arco = <<>> /\ nlevs = 0
    /\ files = 0 /\ i = 0
    /\ t = <<>> /\ t_iter = <<>> /\ eta = <<>> /\ data = <<>>
    /\ ret = NoCall /\ xyret = NoCall
    /\ io = <<>>
    /\ query = NoCall /\ located = NoCall
    /\ grid = NoCall /\ uvar = NoCall /\ added = <<>>

\* a dataset has been opened and read_time_series is called on it
Init ==
    /\ self \in Datasets
    /\ args \in RtsArgs(self)
    /\ disk \in Disks(self, args.sfile, args.nfiles)
    /\ xyargs = NoCall
    /\ pc = "rts"
    /\ Idle

Next == RtsBegin \/ RtsOpen \/ RtsRead \/ RtsFinish

Spec == Init /\ [][Next]_vars

----------------------------------------------------------------------------
(* find_parent_element on its own: meshes and query points.                *)

RECURSIVE SeqsUpTo(_, _)
SeqsUpTo(S, n) ==
    IF n = 0 THEN {<<>>}
    ELSE LET shorter == SeqsUpTo(S, n - 1)
         IN shorter \cup {Append(q, e) : q \in shorter, e \in S}

\* a wide mesh: triangle 1-2-3 (area 2e6) in its three rotations, its
\* neighbour 2-4-3, the clockwise 1-3-2 (negative area) and the collinear
\* 1-2-5 (zero area)
WideMeshes ==
    {Mesh(<<0, 2000, 0, 2000, 4000>>, <<0, 4, 2000, 2000, 8>>, <<1, 2, 3, 4, 5>>, es) :
        es \in SeqsUpTo({<<1, 2, 3>>, <<2, 3, 1>>, <<3, 1, 2>>, <<2, 4, 3>>,
                         <<1, 3, 2>>, <<1, 2, 5>>}, MaxElems) \ {<<>>}}

\* inside 1-2-3, on node 1, on the edge shared with 2-4-3, a hair outside the
\* edge 1-2 (twice), inside 2-4-3, and well outside
WideQueries ==
    {<<500, 500>>, <<0, 0>>, <<1000, 1002>>, <<2, 0>>, <<1002, 2>>,
     <<1500, 1500>>, <<500, -100>>}

\* a long thin triangle (area 2e6) in its three rotations
ThinMeshes ==
    {Mesh(<<0, 1000000, 1000000>>, <<0, -2, 2>>, <<1, 2, 3>>, es) :
        es \in SeqsUpTo({<<1, 2, 3>>, <<2, 3, 1>>, <<3, 1, 2>>}, MaxElems) \ {<<>>}}

\* a hair beyond node 1, on node 1, inside, and well outside
ThinQueries == {<<-2, 0>>, <<0, 0>>, <<500000, 0>>, <<0, 100>>}

InitLocate ==
    /\ \/ self \in WideMeshes /\ query \in WideQueries
       \/ self \in ThinMeshes /\ query \in ThinQueries
    /\ disk = <<>> /\ args = NoCall /\ xyargs = NoCall
    /\ pc = "locate"
    /\ nodes = NoneSel /\ levels = NoneSel /\ arco = <<>> /\ nlevs = 0
    /\ files = 0 /\ i = 0
    /\ t = <<>> /\ t_iter = <<>> /\ eta = <<>> /\ data = <<>>
    /\ ret = NoCall /\ xyret = NoCall /\ io = <<>>
    /\ located = NoCall
    /\ grid = NoCall /\ uvar = NoCall /\ added = <<>>

\* a call find_parent_element(x00, y00)
Locate ==
    /\ pc = "locate"
    /\ located' = find_parent_element(query[1], query[2])
    /\ pc' = "located"
    /\ UNCHANGED <<gridVars, self, disk, args, xyargs, rtsLocals, ret, xyret, io, query>>

NextLocate == Locate

SpecLocate == InitLocate /\ [][NextLocate]_vars

----------------------------------------------------------------------------
(* Claims about find_parent_element, under SpecLocate.                     *)

ROne == RInt(1)
RZero == RInt(0)
InUnit(w) == RLe(RZero, w) /\ RLe(w, ROne)
WeightSum(w) == RAdd(RAdd(w[0], w[1]), w[2])

Found == pc = "located" /\ ~Failed(located)

\* C3: for every element of positive area and every query point that
\* find_parent_element accepts as contained, the three returned weights sum
\* to 1 and each of them lies in [0, 1].
C3_WeightsSumToOneInUnit ==
    Found => /\ REq(WeightSum(located.arco), ROne)
             /\ \A k \in 0..2 : InUnit(located.arco[k])

\* the signed area of element ei by the shoelace formula on (n1, n2, n0)
AreaOf(ei) ==
    LET n == [j \in 0..2 |-> self.elem[ei][j] - 1]
    IN signa(self.x[n[1]], self.x[n[2]], self.x[n[0]],
             self.y[n[1]], self.y[n[2]], self.y[n[0]])

Degenerate == {ei \in Ix(self.ne) : AreaOf(ei) <= 0}

\* the elements of positive area whose sub-triangle areas about the query
\* point add up to the element's area within the relative tolerance
Containing ==
    {ei \in Ix(self.ne) \ Degenerate :
        LET n == [j \in 0..2 |-> self.elem[ei][j] - 1]
            sub(a, b) == Abs(signa(self.x[n[a]], self.x[n[b]], query[1],
                                   self.y[n[a]], self.y[n[b]], query[2]))
        IN Abs(sub(1, 2) + sub(2, 0) + sub(0, 1) - AreaOf(ei)) <= AreaOf(ei) \div TolInv}

NegativeArea == pc = "located" /\ Failed(located)
                  /\ located.exc = "SystemExit: Negative area"

----------------------------------------------------------------------------
(* Claims about read_time_series, under Spec.                              *)

RtsDone == pc \in {"returned", "raised"}
Returned == pc = "returned"

FileRange == args.sfile..(args.sfile + args.nfiles - 1)
Present == {f \in FileRange : disk[f].kind # "missing"}
Complete == {f \in FileRange : disk[f].kind = "ok"}
NoCutFile == Present = Complete

\* the levels of one record: 1 for a 2-D variable (lines 204-208)
NLevs == IF self.flag_dm = 2 THEN 1 ELSE self.nlevels

\* every record of a complete file reshapes to (np, nlevs, flag_sv)
WellFormed == self.grid_size = self.np * NLevs

\* the selectors the call ends up with (lines 184-208)
EffNodes ==
    IF XySize(args.xy) # 0
    THEN ListSel([k \in 1..(3 * Len(args.xy)) |->
            find_parent_element(args.xy[(k - 1) \div 3 + 1][1],
                                args.xy[(k - 1) \div 3 + 1][2]).node3[(k - 1) % 3] - 1])
    ELSE IF args.nodes.kind = "None" THEN Arange(self.np) ELSE args.nodes
EffLevels ==
    IF self.flag_dm = 2 THEN ListSel(<<0>>)
    ELSE IF args.levels.kind = "None" THEN Arange(self.nlevels) ELSE args.levels

XyShapeOk == XySize(args.xy) = 0 \/ Len(args.xy[1]) = 2
XyFound ==
    \A k \in 1..Len(args.xy) : ~Failed(find_parent_element(args.xy[k][1], args.xy[k][2]))

\* a call whose selectors are lists of indices in range and whose query
\* points all lie in the mesh
ValidCall ==
    /\ XyShapeOk /\ XyFound
    /\ args.levels.kind # "int"
    /\ SelOk(EffNodes, self.np)
    /\ SelOk(EffLevels, NLevs)

\* C1: whatever subset of the files of the sequence is missing, all of them
\* included, read_time_series returns without raising, and t holds nsteps
\* entries for every file that is present.
C1_MissingFilesAreSkipped ==
    (RtsDone /\ NoCutFile /\ WellFormed /\ ValidCall)
        => /\ Returned
           /\ Len(ret.t) = self.nsteps * Cardinality(Present)

\* (C1, the part that holds) the same with at least one file present
C1_SomeFilePresent ==
    (RtsDone /\ NoCutFile /\ WellFormed /\ ValidCall /\ Present # {})
        => /\ Returned
           /\ Len(ret.t) = self.nsteps * Cardinality(Present)

\* the number of timestep entries of a returned array
Rows(a) == a.shape[1]

\* C2: a file whose reading fails part-way contributes nothing: t, t_iter,
\* eta and data of the result have the same number of timestep entries,
\* nsteps for every file read completely.
C2_NoPartialRecord ==
    (Returned /\ WellFormed /\ ValidCall)
        => LET n == self.nsteps * Cardinality(Complete)
           IN /\ Len(ret.t) = n
              /\ Len(ret.t_iter) = n
              /\ Rows(ret.eta) = n
              /\ Rows(ret.data) = n

SelectorsInRange ==
    /\ XyShapeOk /\ XyFound
    /\ SelOk(EffNodes, self.np)
    /\ SelOk(EffLevels, NLevs)

BadNodeSelector ==
    XySize(args.xy) = 0 /\ args.nodes.kind # "None" /\ ~SelOk(args.nodes, self.np)
BadLevelSelector ==
    self.flag_dm = 3 /\ args.levels.kind # "None" /\ ~SelOk(args.levels, self.nlevels)
BadXyShape == ~XyShapeOk

\* C7: a call with a node or level selector that names an index out of
\* range, or with a query-point array of the wrong shape, fails, and it
\* fails before any data file is opened or read.
C7_BadSelectorFailsBeforeIO ==
    (RtsDone /\ Complete = FileRange /\ WellFormed
             /\ (BadNodeSelector \/ BadLevelSelector \/ BadXyShape))
        => pc = "raised" /\ io = <<>>

\* C8: files are opened in strictly increasing index order and the records
\* of a file are read in strictly increasing timestep order; the entries of
\* t, t_iter, eta and data are in that order, and entry k of each of them
\* comes from the same record.
C8_EntriesInReadOrder ==
    /\ \A a, b \in 1..Len(io) :
           a < b => /\ io[a].file <= io[b].file
                    /\ (io[a].file = io[b].file => /\ io[a].op = "open" \/ io[b].op = "read"
                                                   /\ io[b].op = "read"
                                                   /\ io[a].op = "read" => io[a].step < io[b].step)
    /\ (Returned /\ XySize(args.xy) = 0 /\ ValidCall /\ WellFormed /\ Complete # {})
           => LET n == Len(ret.t)
              IN /\ Len(ret.t_iter) = n /\ Rows(ret.eta) = n /\ Rows(ret.data) = n
                 /\ \A k \in 1..n :
                       /\ ret.t_iter[k] = 100 + ret.t[k]
                       /\ ret.eta.at[<<k - 1, 0>>] \div 10 = ret.t[k]
                       /\ ret.data.at[<<k - 1, 0, 0, 0>>] \div 100 = ret.t[k]
                 /\ \A k \in 1..(n - 1) : ret.t[k] < ret.t[k + 1]

\* the data a call with the default node and level sets returns
FullData == StackList(RunFrom(args.sfile, 0, Arange(self.np), Arange(NLevs), EmptyAcc).data)

\* data equals FullData projected onto the node list S and the level list L
IsProjection(d, S, L) ==
    LET full == FullData
    IN /\ Ndim(d) = 4
       /\ d.shape = <<Rows(full), Len(S), Len(L), full.shape[4]>>
       /\ \A ix \in IdxSet(d.shape) :
             d.at[ix] = full.at[<<ix[1], PyIdx(S[ix[2] + 1], self.np),
                                  PyIdx(L[ix[3] + 1], NLevs), ix[4]>>]

\* C10: for every accepted node selector S and level selector L (a single
\* level index included) the data returned equals the data returned with
\* the default sets projected onto S x L, with the same four axes.
C10_SliceIsProjection ==
    (Returned /\ XySize(args.xy) = 0 /\ SelectorsInRange
              /\ NoCutFile /\ Present # {} /\ WellFormed)
        => IsProjection(ret.data, EffNodes.v,
                        IF EffLevels.kind = "int" THEN <<EffLevels.v>> ELSE EffLevels.v)

\* (C10, the part that holds) the same for level selectors that are lists
C10_ListSelectors ==
    (Returned /\ XySize(args.xy) = 0 /\ SelectorsInRange /\ EffLevels.kind = "list"
              /\ NoCutFile /\ Present # {} /\ WellFormed)
        => IsProjection(ret.data, EffNodes.v, EffLevels.v)

----------------------------------------------------------------------------
(* read_time_series_xy called on an opened dataset.                        *)

XyArgs ==
    {[kind |-> "call", x |-> p[1], y |-> p[2], sigma_level |-> m, return_eta |-> e] :
        p \in {<<2, 2>>, <<6, 6>>},
        m \in {"average", "top", "bottom", "middle"},
        e \in {FALSE}}
    \cup
    {[kind |-> "call", x |-> 6, y |-> 6, sigma_level |-> m, return_eta |-> TRUE] :
        m \in {"average", "top", "bottom", "middle"}}

InitXY ==
    /\ self \in Datasets
    /\ xyargs \in XyArgs
    /\ disk \in Disks(self, 1, NFilesDefault)
    /\ args = NoCall
    /\ pc = "xy"
    /\ Idle

NextXY == XyCall \/ RtsBegin \/ RtsOpen \/ RtsRead \/ RtsFinish \/ XyReturn

SpecXY == InitXY /\ [][NextXY]_vars

----------------------------------------------------------------------------
(* read_time_series called with query points.                              *)

\* the file sequences in which at most one file is missing or cut short
SingleFaultDisks(ds, sfile, nfiles) ==
    {d \in Disks(ds, sfile, nfiles) :
        Cardinality({f \in DOMAIN d : d[f].kind # "ok"}) <= 1}

InitInterp ==
    /\ self \in Datasets
    /\ args \in XyCallArgs(self)
    /\ disk \in SingleFaultDisks(self, args.sfile, args.nfiles)
    /\ xyargs = NoCall
    /\ pc = "rts"
    /\ Idle

SpecInterp == InitInterp /\ [][Next]_vars

\* the parent element located for query point p (0-based)
ParentOf(p) == find_parent_element(args.xy[p + 1][1], args.xy[p + 1][2])

\* sum over k = 0..2 of F(n_k) * w_k for the nodes and weights of point p
WeightedSum(F(_), p) ==
    LET loc == ParentOf(p)
        term(k) == RMul(RInt(F(loc.node3[k] - 1)), loc.arco[k])
    IN RAdd(RAdd(term(0), term(1)), term(2))

\* C9: a call with m query points returns one spatial entry per point (m
\* columns of eta, m entries of dp, m entries on the node axis of data), and
\* for point p every value is the sum over k = 0..2 of nodeValue[n_k] * w_k
\* with (n_0, n_1, n_2) the 0-based nodes and (w_0, w_1, w_2) the weights of
\* the element located for p: for elevation, for depth and for every
\* timestep, level and component of data.
C9_PointValuesAreWeightedSums ==
    (Returned /\ XySize(args.xy) # 0)
        => LET m == Len(args.xy)
               byNode == RunFrom(args.sfile, 0, Arange(self.np), EffLevels, EmptyAcc)
               full == StackList(byNode.data)
           IN /\ ret.eta.shape = <<Len(byNode.eta), m>>
              /\ DOMAIN ret.dp = Ix(m)
              /\ ret.data.shape = <<Rows(full), m, full.shape[3], full.shape[4]>>
              /\ \A p \in Ix(m) :
                    REq(ret.dp[p], WeightedSum(LAMBDA n : self.dp[n], p))
              /\ \A ix \in IdxSet(ret.eta.shape) :
                    REq(ret.eta.at[ix],
                        WeightedSum(LAMBDA n : byNode.eta[ix[1] + 1][n], ix[2]))
              /\ \A ix \in IdxSet(ret.data.shape) :
                    REq(ret.data.at[ix],
                        WeightedSum(LAMBDA n : full.at[<<ix[1], n, ix[3], ix[4]>>], ix[2]))

\* two query points in different elements have been interpolated over at
\* least one record of several levels
C9_Witness ==
    /\ Returned /\ Len(args.xy) = 2
    /\ ParentOf(0).parent # ParentOf(1).parent
    /\ Rows(ret.data) >= 1 /\ ret.data.shape[3] > 1

----------------------------------------------------------------------------
(* Claims about read_time_series_xy, under SpecXY.                         *)

XyDone == pc = "xydone"
AllComplete == Complete = FileRange

\* the level index a reduction mode names
LevelOfMode(m) ==
    CASE m = "top" -> 0
      [] m = "bottom" -> self.nlevels - 1
      [] m = "middle" -> self.nlevels \div 2

\* the mean over the three nearest nodes of FullData at timestep k, level l,
\* component c
NodeMean(k, l, c) ==
    LET nn == Nearest(xyargs.x, xyargs.y, KNearest)
        full == FullData
    IN RDivInt(RInt(full.at[<<k, nn[1], l, c>>] + full.at[<<k, nn[2], l, c>>]
                    + full.at[<<k, nn[3], l, c>>]), 3)

\* the series pairs every timestep's time with the node mean at level l
SeriesAtLevel(l) ==
    /\ ~Failed(xyret)
    /\ xyret.series.shape = <<Rows(FullData), 1 + self.flag_sv>>
    /\ \A k \in Ix(Rows(FullData)) :
          /\ xyret.series.at[<<k, 0>>] = RInt(ret.t[k + 1])
          /\ \A c \in Ix(self.flag_sv) :
                REq(xyret.series.at[<<k, 1 + c>>], NodeMean(k, l, c))

\* C5: on a 3-D dataset read_time_series_xy with mode "top" returns, for
\* every timestep, the value at level 0 only, "bottom" that at level
\* nlevels-1, "middle" that at level nlevels//2, each averaged over the three
\* nearest nodes and paired with the timestep's time; the call completes.
C5_LevelModesSelectOneLevel ==
    (XyDone /\ xyargs.sigma_level # "average" /\ self.flag_dm = 3
            /\ AllComplete /\ WellFormed)
        => SeriesAtLevel(LevelOfMode(xyargs.sigma_level))

\* (C5, the 2-D case, which holds) a 2-D dataset has the single level 0
C5_TwoDimensional ==
    (XyDone /\ xyargs.sigma_level # "average" /\ self.flag_dm = 2 /\ AllComplete)
        => SeriesAtLevel(0)

\* C6: mode "average" returns one scalar per timestep, the mean over the
\* three nodes of the mean over all levels of component 0, paired with the
\* timestep's time; the call completes for every valid dataset.
C6_AverageMode ==
    (XyDone /\ xyargs.sigma_level = "average" /\ AllComplete /\ WellFormed)
        => /\ ~Failed(xyret)
           /\ xyret.series.shape = <<Rows(FullData), 2>>
           /\ \A k \in Ix(Rows(FullData)) :
                 /\ xyret.series.at[<<k, 0>>] = RInt(ret.t[k + 1])
                 /\ REq(xyret.series.at[<<k, 1>>],
                        RDivInt(RSumTo(LAMBDA l : NodeMean(k, l, 0), NLevs), NLevs))

----------------------------------------------------------------------------
(* UGrid.add_data and the UVar it takes.  The code of pyugrid.ugrid is not *)
(* among the sources; the operations are modelled from the behaviour the   *)
(* tests of src/test/test_add_data.py and src/test/test_uvar.py expect.    *)
(* A Python dictionary is a function on its keys.  The caller holds one    *)
(* UVar object (uvar); a dictionary entry that is this object is the       *)
(* reference [ref |-> "uvar"], so that a later assignment to uvar.data is  *)
(* seen through grid.data, as it is in Python.                             *)

MaxAdds == 2       \* add_data calls of one scenario
MaxData == 6       \* longest data list given to a UVar

EmptyDict == [n \in {} |-> 0]

Locations == {"node", "face", "edge", "boundary"}
VarNames == {"depth", "u", "bounds"}

\* the data lists of the tests: [1.0, 2.0, ..., n]
DataOfLen(n) == [k \in 1..n |-> k]

\* UVar(name, location=..., data=...) (test_uvar.py, test_init): attributes
\* start empty; the tests then set attributes['units']
UVar(name, location, dat) ==
    [name |-> name, location |-> location, attributes |-> EmptyDict, data |-> dat]

WithUnits(v, u) == [v EXCEPT !.attributes = ("units" :> u) @@ v.attributes]

\* two_triangles() of the tests: 4 nodes, 2 faces, 5 edges, and the 4
\* boundary segments test_add_boundary_data assigns; no data
TwoTriangles ==
    [node |-> 4, face |-> 2, edge |-> 5, boundary |-> 4, data |-> EmptyDict]

\* a variable added earlier and no longer held by the caller
Stored(v) == [ref |-> "obj", obj |-> v]
Held == [ref |-> "uvar"]

\* the UVar a dictionary entry denotes
Resolve(e, v) == IF e.ref = "uvar" THEN v ELSE e.obj

\* the number of grid entities at a location
EntityCount(g, loc) == g[loc]

\* add_data that stores the variable before it checks the size
add_data_store_first(g, v) ==
    [grid |-> [g EXCEPT !.data = (v.name :> Held) @@ g.data],
     result |-> IF Len(v.data) # EntityCount(g, v.location)
                THEN Raise("ValueError") ELSE [ok |-> TRUE]]

\* grid.add_data(v): the size check by location, then the variable is
\* stored under its name
add_data(g, v) ==
    IF Len(v.data) # EntityCount(g, v.location)
    THEN [grid |-> g, result |-> Raise("ValueError")]
    ELSE [grid |-> [g EXCEPT !.data = (v.name :> Held) @@ g.data],
          result |-> [ok |-> TRUE]]

gridIdle ==
    /\ self = NoCall /\ disk = <<>> /\ args = NoCall /\ xyargs = NoCall
    /\ nodes = NoneSel /\ levels = NoneSel /\ arco = <<>> /\ nlevs = 0
    /\ files = 0 /\ i = 0
    /\ t = <<>> /\ t_iter = <<>> /\ eta = <<>> /\ data = <<>>
    /\ ret = NoCall /\ xyret = NoCall /\ io = <<>>
    /\ query = NoCall /\ located = NoCall

\* a grid, possibly with a face variable added earlier, and a UVar just
\* constructed by the caller
InitGrid ==
    /\ grid \in {TwoTriangles,
                 [TwoTriangles EXCEPT
                     !.data = "u" :> Stored(WithUnits(UVar("u", "face", DataOfLen(2)),
                                                      "m/s"))]}
    /\ uvar \in {UVar(n, l, DataOfLen(k)) :
                    n \in VarNames, l \in Locations, k \in 0..MaxData}
    /\ added = <<>>
    /\ pc = "grid"
    /\ gridIdle

\* uvar.data = [...] (test_add_data.py line 131, test_uvar.py line 36)
SetData ==
    /\ pc = "grid"
    /\ \E k \in 0..MaxData : uvar' = [uvar EXCEPT !.data = DataOfLen(k)]
    /\ UNCHANGED <<grid, added, self, disk, args, xyargs, pc, rtsLocals, ret,
                   xyret, io, query, located>>

\* uvar.attributes['units'] = 'm' (test_add_data.py line 37)
SetAttr ==
    /\ pc = "grid"
    /\ uvar' = WithUnits(uvar, "m")
    /\ UNCHANGED <<grid, added, self, disk, args, xyargs, pc, rtsLocals, ret,
                   xyret, io, query, located>>

\* grid.boundaries = [...] (test_add_data.py lines 117-120)
SetBoundaries ==
    /\ pc = "grid"
    /\ \E k \in {2, 4} : grid' = [grid EXCEPT !.boundary = k]
    /\ UNCHANGED <<uvar, added, self, disk, args, xyargs, pc, rtsLocals, ret,
                   xyret, io, query, located>>

\* grid.add_data(uvar)
AddData ==
    /\ pc = "grid"
    /\ Len(added) < MaxAdds
    /\ grid' = add_data(grid, uvar).grid
    /\ added' = Append(added, add_data(grid, uvar).result)
    /\ UNCHANGED <<uvar, self, disk, args, xyargs, pc, rtsLocals, ret,
                   xyret, io, query, located>>

NextGrid == SetData \/ SetAttr \/ SetBoundaries \/ AddData

SpecGrid == InitGrid /\ [][NextGrid]_vars

----------------------------------------------------------------------------
(* Claims about UGrid.add_data, under SpecGrid.                            *)

Mismatch == Len(uvar.data) # EntityCount(grid, uvar.location)
Rejected(r) == Failed(r) /\ r.exc = "ValueError"

----------------------------------------------------------------------------
(* read_time_series on datasets of any bottom indices: complete or missing *)
(* files, selectors left at their defaults or lists in range.              *)

\* bottom indices as read_hgrid stores them (line 117), before the clamp
BottomIndices == [Ix(SquareMesh.np) -> {0, 1, 2}]

BottomDatasets ==
    {compute_step_size(
         [nsteps |-> ns, flag_sv |-> sv, flag_dm |-> dm, nlevels |-> nl,
          bot_idx |-> b, grid_size |-> 0] @@ SquareMesh) :
        ns \in {1, MaxSteps}, sv \in {1, 2}, dm \in {2, 3}, nl \in {1, MaxLevels},
        b \in BottomIndices}

RecordArgs(ds) ==
    {[nodes |-> n, levels |-> l, xy |-> <<>>, nfiles |-> k, sfile |-> 1] :
        n \in {NoneSel}, l \in {NoneSel, ListSel(<<ds.nlevels - 1, 0>>)},
        k \in {1, MaxFiles}}

\* every file complete, or the first one missing
RecordDisks(sfile, nfiles) ==
    {[f \in sfile..(sfile + nfiles - 1) |->
         [kind |-> IF f = sfile THEN first ELSE "ok"]] : first \in {"ok", "missing"}}

InitRecords ==
    /\ self \in BottomDatasets
    /\ args \in RecordArgs(self)
    /\ disk \in RecordDisks(args.sfile, args.nfiles)
    /\ xyargs = NoCall
    /\ pc = "rts"
    /\ Idle

SpecRecords == InitRecords /\ [][Next]_vars

\* the number of data values read for one record (line 220) and the number
\* the reshape of line 221 needs
ValuesRead == self.flag_sv * self.grid_size
ValuesReshaped == self.np * NLevs * self.flag_sv

\* the data blocks kept by the loop are those of every record of every
\* present file, each of the shape selected from (np, nlevs, flag_sv)
AllRecordsEmitted ==
    /\ Len(data) = self.nsteps * Cardinality(Present)
    /\ \A k \in 1..Len(data) :
          data[k].shape = <<ALen(EffNodes.v), ALen(EffLevels.v), self.flag_sv>>

\* C12: for every decoded dataset, 2-D or 3-D with any bottom
\* indices, the number of data values read for one record equals
\* np * effectiveLevels * flag_sv, so that every record of a well-formed
\* file is emitted.
C12_EveryRecordReshapes ==
    (RtsDone /\ Complete = FileRange)
        => (ValuesRead = ValuesReshaped /\ AllRecordsEmitted)

\* (C12, the cases that hold) the number of values read equals np *
\* effectiveLevels * flag_sv exactly when the dataset is 2-D or every clamped
\* bottom index is 1; then every record of every present file is emitted;
\* otherwise fewer values are read and no record's data block is emitted.
C12_ReshapesWhenBottomIsOne ==
    /\ ValuesRead = ValuesReshaped
          <=> (self.flag_dm = 2 \/ \A n \in Ix(self.np) : self.bot_idx[n] = 1)
    /\ ValuesRead <= ValuesReshaped
    /\ RtsDone => IF ValuesRead = ValuesReshaped
                  THEN AllRecordsEmitted
                  ELSE data = <<>>

====
